---- MODULE Spec2Model ----
(***************************************************************************)
(* Real-time administrative activity feed of AgentForge.                   *)
(*                                                                         *)
(* Part I  - the Client Reconnection Agent, WebSocketServiceClass of       *)
(*           frontend/src/services/HealthService.js, translated from the   *)
(*           JavaScript source.  The browser's WebSocket object and its    *)
(*           timers are the environment: each event the browser can        *)
(*           dispatch is one action that runs the handler the agent        *)
(*           attached to that socket.                                      *)
(* Part II - the server side (Event Log Store, Activity Broadcaster,       *)
(*           Subscriber Session Manager).  websocket/activity_socket.py    *)
(*           is not among the source files, so this part follows the       *)
(*           design document (sections 4.1-4.3, 5).                        *)
(* Part III - AdminAuthContext: the adminAxios instance, its interceptors  *)
(*           and the provider's login and logout.  The repository holds    *)
(*           two versions of the file (frontend/src/context/               *)
(*           AdminAuthContext.jsx and unnamed/part_000); a page load picks *)
(*           either.  The AdminDashboard page handles admin_token on its   *)
(*           own (pages/AdminDashboard.jsx).                               *)
(* Part IV - the useDashboard hook (unnamed/part_003): its shared loading  *)
(*           and error state under concurrent fetches.                     *)
(***************************************************************************)
EXTENDS Integers, Sequences, FiniteSets, TLC

(***************************************************************************)
(* Bounds of the model.                                                    *)
(***************************************************************************)
MaxSockets == 2      \* WebSocket objects not yet CLOSED, plus this.ws
MaxTimers == 2       \* reconnect timeouts pending at once
MaxIntervals == 2    \* keepalive intervals running at once
MaxFailures == 9     \* reconnects scheduled without an open in between
MaxMessages == 2     \* inbound messages observed

(***************************************************************************)
(* Program constants.  Delays are kept in eighths of a millisecond so that *)
(* every value 2000 * 1.5^k below the ceiling is an integer                *)
(* (22781.25 ms = 182250 eighths).                                         *)
(***************************************************************************)
FloorMs == 2000
MaxDelayMs == 30000
PingPeriodMs == 25000
FloorDelay == FloorMs * 8
maxDelay == MaxDelayMs * 8

SocketIds == 1..MaxSockets
IntervalIds == 1..MaxIntervals
Handlers == {"onEvent"}
Inbound == {"pong", "event", "scalar", "null", "malformed"}

VARIABLES
  \* ---- WebSocketServiceClass fields
  ws,               \* this.ws: 0 for null, else the slot of the current socket
  listeners,        \* this.listeners: sequence of handler ids
  reconnectDelay,   \* this.reconnectDelay, in eighths of a millisecond
  shouldReconnect,  \* this.shouldReconnect
  pingInterval,     \* this._pingInterval: 0 for null, else an interval id
  \* ---- browser environment
  readyState,       \* readyState of the WebSocket object in every slot
  intervals,        \* ids of the setInterval timers still running
  timeouts,         \* number of pending setTimeout(() => this._connect(), delay)
  \* ---- observations
  everOpen,         \* TRUE once an open event has fired on some socket
  scheduled,        \* delays of the reconnects scheduled since the last open
  arrived,          \* inbound messages in arrival order
  forwarded,        \* handler invocations <<handler, message index>> in order
  pingPeriod,       \* period in ms given to the latest setInterval, 0 before any
  pinged,           \* what the latest keepalive tick did: NONE before any tick,
                    \* SKIPPED, or the readyState of the socket it sent "ping" on
  uncaught          \* an event handler threw an exception nobody caught

agentVars == <<ws, listeners, reconnectDelay, shouldReconnect, pingInterval,
               readyState, intervals, timeouts, everOpen, pingPeriod, scheduled,
               arrived, forwarded, pinged, uncaught>>

(***************************************************************************)
(* Bounds, constants and state of Part II (server side).                   *)
(***************************************************************************)
MaxSessions == 2     \* administrator connections over a run
MaxProducers == 2    \* producers calling publish concurrently
MaxEvents == 2       \* records appended over a run
MaxLogged == 25      \* records appended over a run of the replay specification
ReplayLimit == 20    \* "sends last 20 events on connect"

Sessions == 1..MaxSessions
Producers == 1..MaxProducers

VARIABLES
  log,        \* Event Log: sequence of [seq, by]
  sessState,  \* Subscriber Session state: none, connecting, active, closed (no
              \* operation of the Session Manager enters closing)
  live,       \* the live session set
  readAt,     \* length of the log when the session read recent(20), -1 before
  replay,     \* the replay batch the session read (sequence numbers)
  outbox,     \* per-session queue awaiting the socket: <<"replay", batch>>, <<"live", seq>>
  received,   \* what each session's client has received, in order
  flagged,    \* a delivery to the session failed: handed over for a liveness re-check
  silent,     \* TRUE once the session has sent no traffic for longer than the timeout
  pubPc,      \* each producer's publish call: idle, appended, failed
  pubEv,      \* sequence number of the record a publish call is fanning out
  startLive,  \* per event, the live set at the moment its publish call appended it
  redone      \* outcome of onDisconnect on a session closed already: no, noop, error

feedVars == <<log, sessState, live, readAt, replay, outbox, received, flagged,
              silent, pubPc, pubEv, startLive, redone>>

(***************************************************************************)
(* Bounds and state of Part III (AdminAuthContext).                        *)
(***************************************************************************)
MaxTokens == 2       \* distinct access tokens the backend issues over a run
MaxRequests == 2     \* adminAxios requests in flight at once

Tokens == 1..MaxTokens
Variants == {"context", "part_000"}

VARIABLES
  variant,       \* the version of AdminAuthContext the page loaded, "unloaded" before
  admin_token,   \* localStorage item "admin_token": 0 when absent, else a token
  adminSecret,   \* localStorage item "adminSecret": 0 when absent
  adminToken,    \* React state adminToken of AdminAuthProvider: 0 for null
  isLoggingOut,  \* React state isLoggingOut
  captured,      \* the adminToken values closed over by the response interceptors
                 \* registered so far (one is added by every render, none is ejected)
  dirty,         \* a state update is waiting for its render
  inflight,      \* adminAxios requests sent and not yet answered
  lastHeaders,   \* Authorization and x-admin-secret of the latest request, 0 when absent
  lastResponse,  \* the latest response: its status, whether the caller's promise
                 \* was rejected, whether an interceptor invoked adminLogout
  redirecting    \* a setTimeout that will load /admin-login is pending

authVars == <<variant, admin_token, adminSecret, adminToken, isLoggingOut,
              captured, dirty, inflight, lastHeaders, lastResponse, redirecting>>

(***************************************************************************)
(* Bounds and state of Part IV (the useDashboard hook).                    *)
(***************************************************************************)
MaxCalls == 1        \* calls of one fetch operation in flight at once

Fetches == {"fetchDashboardStats", "fetchUsers", "fetchRevenueBreakdown",
            "fetchActivity", "fetchAlerts"}

VARIABLES
  pending,        \* per fetch operation, its calls awaiting the adminApi answer
  loading,        \* React state loading
  error,          \* React state error: "null", or the fetch whose message it holds
  lastCompleted   \* outcome of the fetch that completed last: none, ok, failed

dashVars == <<pending, loading, error, lastCompleted>>

Min(a, b) == IF a <= b THEN a ELSE b

(***************************************************************************)
(* constructor                                                             *)
(***************************************************************************)
InitAgent ==
  /\ ws = 0
  /\ listeners = <<>>
  /\ reconnectDelay = FloorDelay
  /\ shouldReconnect = FALSE
  /\ pingInterval = 0
  /\ readyState = [s \in SocketIds |-> "NONE"]
  /\ intervals = {}
  /\ timeouts = 0
  /\ everOpen = FALSE
  /\ pingPeriod = 0
  /\ scheduled = <<>>
  /\ arrived = <<>>
  /\ forwarded = <<>>
  /\ pinged = "NONE"
  /\ uncaught = FALSE

(***************************************************************************)
(* WebSocket.close() on socket s, given the readyState function rs:        *)
(* CONNECTING and OPEN become CLOSING, CLOSING and CLOSED are left alone.  *)
(***************************************************************************)
SocketClose(rs, s) ==
  IF rs[s] \in {"CONNECTING", "OPEN"} THEN [rs EXCEPT ![s] = "CLOSING"] ELSE rs

(***************************************************************************)
(* A CLOSED socket dispatches no further event, so its slot is free for    *)
(* the next WebSocket object; the slot this.ws still refers to is kept     *)
(* unless it is the only one left.                                         *)
(***************************************************************************)
FreeSlots == {s \in SocketIds : readyState[s] \in {"NONE", "CLOSED"}}

NewSlot ==
  IF FreeSlots \ {ws} # {}
    THEN CHOOSE s \in FreeSlots \ {ws} : \A t \in FreeSlots \ {ws} : s <= t
    ELSE ws

(***************************************************************************)
(* _connect(): new WebSocket(url) either throws (caught, this.ws keeps its *)
(* old value) or yields a fresh socket in state CONNECTING which becomes   *)
(* this.ws.                                                                *)
(***************************************************************************)
DoConnect(throws) ==
  IF throws
    THEN UNCHANGED <<ws, readyState>>
    ELSE /\ ws' = NewSlot
         /\ readyState' = [readyState EXCEPT ![NewSlot] = "CONNECTING"]

(***************************************************************************)
(* _stopPing(): the intervals left running; _pingInterval becomes null.    *)
(***************************************************************************)
StopPingIntervals == IF pingInterval # 0 THEN intervals \ {pingInterval} ELSE intervals

(***************************************************************************)
(* _startPing(): setInterval hands out a fresh id; the id _pingInterval    *)
(* held before is overwritten without clearInterval.                       *)
(***************************************************************************)
NewInterval == CHOOSE i \in IntervalIds \ intervals : \A j \in IntervalIds \ intervals : i <= j

(***************************************************************************)
(* Variant of the growth step that doubles the delay.                      *)
(***************************************************************************)
GrowByDoubling(d) == Min(d * 2, maxDelay)

(***************************************************************************)
(* The growth step of onclose: Math.min(reconnectDelay * 1.5, maxDelay).   *)
(***************************************************************************)
Grow(d) == Min((d * 3) \div 2, maxDelay)

(***************************************************************************)
(* connect(onEvent)                                                        *)
(***************************************************************************)
Connect(h, throws) ==
  /\ FreeSlots # {}
  /\ shouldReconnect' = TRUE
  /\ listeners' = <<h>>
  /\ DoConnect(throws)
  /\ UNCHANGED <<reconnectDelay, pingInterval, intervals, timeouts, everOpen, pingPeriod,
                 scheduled, arrived, forwarded, pinged, uncaught>>
  /\ UNCHANGED <<feedVars, authVars, dashVars>>

(***************************************************************************)
(* a pending reconnect timer fires: () => this._connect()                  *)
(***************************************************************************)
TimerFire(throws) ==
  /\ timeouts > 0
  /\ FreeSlots # {}
  /\ timeouts' = timeouts - 1
  /\ DoConnect(throws)
  /\ UNCHANGED <<listeners, reconnectDelay, shouldReconnect, pingInterval,
                 intervals, everOpen, pingPeriod, scheduled, arrived, forwarded, pinged,
                 uncaught>>
  /\ UNCHANGED <<feedVars, authVars, dashVars>>

(***************************************************************************)
(* Variant of onopen that forgets the backoff reset.                       *)
(***************************************************************************)
OnOpenNoReset(s) ==
  /\ readyState[s] = "CONNECTING"
  /\ IntervalIds \ intervals # {}
  /\ readyState' = [readyState EXCEPT ![s] = "OPEN"]
  /\ pingInterval' = NewInterval
  /\ intervals' = intervals \cup {NewInterval}
  /\ everOpen' = TRUE
  /\ pingPeriod' = PingPeriodMs
  /\ scheduled' = <<>>
  /\ UNCHANGED <<ws, listeners, reconnectDelay, shouldReconnect, timeouts,
                 arrived, forwarded, pinged, uncaught>>
  /\ UNCHANGED <<feedVars, authVars, dashVars>>

(***************************************************************************)
(* ws.onopen of socket s: reset the backoff, _startPing()                  *)
(***************************************************************************)
OnOpen(s) ==
  /\ readyState[s] = "CONNECTING"
  /\ IntervalIds \ intervals # {}
  /\ readyState' = [readyState EXCEPT ![s] = "OPEN"]
  /\ reconnectDelay' = FloorDelay
  /\ pingInterval' = NewInterval
  /\ intervals' = intervals \cup {NewInterval}
  /\ everOpen' = TRUE
  /\ pingPeriod' = PingPeriodMs
  /\ scheduled' = <<>>
  /\ UNCHANGED <<ws, listeners, shouldReconnect, timeouts, arrived,
                 forwarded, pinged, uncaught>>
  /\ UNCHANGED <<feedVars, authVars, dashVars>>

(***************************************************************************)
(* JSON.parse(e.data) followed by the read of data.type, for each class of *)
(* inbound text: an unparseable text makes JSON.parse throw a SyntaxError; *)
(* the text null parses, and reading null.type throws a TypeError; a JSON  *)
(* number, string or boolean parses and its .type is undefined; a JSON     *)
(* object has the type it carries.                                         *)
(***************************************************************************)
Parse(m) ==
  [threw |-> m \in {"malformed", "null"},
   type  |-> IF m = "pong" THEN "pong" ELSE IF m = "event" THEN "event" ELSE "undefined"]

(***************************************************************************)
(* Variant of onmessage without the try/catch.                             *)
(***************************************************************************)
OnMessageNoCatch(s, m) ==
  /\ readyState[s] = "OPEN"
  /\ Len(arrived) < MaxMessages
  /\ arrived' = Append(arrived, m)
  /\ uncaught' = (uncaught \/ Parse(m).threw)
  /\ forwarded' = IF ~Parse(m).threw /\ Parse(m).type # "pong"
                    THEN forwarded \o [i \in 1..Len(listeners) |-> <<listeners[i], Len(arrived) + 1>>]
                    ELSE forwarded
  /\ UNCHANGED <<ws, listeners, reconnectDelay, shouldReconnect, pingInterval,
                 readyState, intervals, timeouts, everOpen, pingPeriod, scheduled, pinged>>
  /\ UNCHANGED <<feedVars, authVars, dashVars>>

(***************************************************************************)
(* Variant of onmessage without the early return on a pong.                *)
(***************************************************************************)
OnMessageForwardsPong(s, m) ==
  /\ readyState[s] = "OPEN"
  /\ Len(arrived) < MaxMessages
  /\ arrived' = Append(arrived, m)
  /\ forwarded' = IF ~Parse(m).threw
                    THEN forwarded \o [i \in 1..Len(listeners) |-> <<listeners[i], Len(arrived) + 1>>]
                    ELSE forwarded
  /\ UNCHANGED <<ws, listeners, reconnectDelay, shouldReconnect, pingInterval,
                 readyState, intervals, timeouts, everOpen, pingPeriod, scheduled,
                 pinged, uncaught>>
  /\ UNCHANGED <<feedVars, authVars, dashVars>>

(***************************************************************************)
(* ws.onmessage of socket s with data m.  The browser delivers messages    *)
(* only while the socket is OPEN.  Whatever is thrown inside the try       *)
(* block is swallowed by the catch; a pong returns early; anything else    *)
(* is handed to every listener.                                            *)
(***************************************************************************)
OnMessage(s, m) ==
  /\ readyState[s] = "OPEN"
  /\ Len(arrived) < MaxMessages
  /\ arrived' = Append(arrived, m)
  /\ forwarded' = IF ~Parse(m).threw /\ Parse(m).type # "pong"
                    THEN forwarded \o [i \in 1..Len(listeners) |-> <<listeners[i], Len(arrived) + 1>>]
                    ELSE forwarded
  /\ UNCHANGED <<ws, listeners, reconnectDelay, shouldReconnect, pingInterval,
                 readyState, intervals, timeouts, everOpen, pingPeriod, scheduled,
                 pinged, uncaught>>
  /\ UNCHANGED <<feedVars, authVars, dashVars>>

(***************************************************************************)
(* Variant of onclose that grows the delay before it schedules.            *)
(***************************************************************************)
CloseHandlerGrowsFirst(s, rs) ==
  /\ shouldReconnect => (timeouts < MaxTimers /\ Len(scheduled) < MaxFailures)
  /\ readyState' = rs
  /\ pingInterval' = 0
  /\ intervals' = StopPingIntervals
  /\ IF shouldReconnect
       THEN /\ timeouts' = timeouts + 1
            /\ scheduled' = Append(scheduled, Grow(reconnectDelay))
            /\ reconnectDelay' = Grow(reconnectDelay)
       ELSE UNCHANGED <<timeouts, scheduled, reconnectDelay>>

(***************************************************************************)
(* The body of ws.onclose, run for socket s once the browser has set its   *)
(* readyState to CLOSED; rs is the readyState function after that.  The    *)
(* delay handed to setTimeout is recorded in scheduled.                    *)
(***************************************************************************)
CloseHandler(s, rs) ==
  /\ shouldReconnect => (timeouts < MaxTimers /\ Len(scheduled) < MaxFailures)
  /\ readyState' = rs
  /\ pingInterval' = 0
  /\ intervals' = StopPingIntervals
  /\ IF shouldReconnect
       THEN /\ timeouts' = timeouts + 1
            /\ scheduled' = Append(scheduled, reconnectDelay)
            /\ reconnectDelay' = Grow(reconnectDelay)
       ELSE UNCHANGED <<timeouts, scheduled, reconnectDelay>>

(***************************************************************************)
(* close event of socket s without an error: the server closed an OPEN     *)
(* socket, or the closing handshake of a CLOSING socket has finished.      *)
(***************************************************************************)
OnClose(s) ==
  /\ readyState[s] \in {"OPEN", "CLOSING"}
  /\ CloseHandler(s, [readyState EXCEPT ![s] = "CLOSED"])
  /\ UNCHANGED <<ws, listeners, shouldReconnect, everOpen, pingPeriod, arrived,
                 forwarded, pinged, uncaught>>
  /\ UNCHANGED <<feedVars, authVars, dashVars>>

(***************************************************************************)
(* The connection of socket s fails: while connecting, while open, or     *)
(* after close() was called on it (close() on a CONNECTING socket fails    *)
(* the connection).  The browser sets readyState CLOSED, then fires error  *)
(* and close in the same task.  ws.onerror calls this.ws.close() on the    *)
(* CURRENT this.ws: a TypeError when it is null, a close of another socket *)
(* when s was superseded.                                                  *)
(***************************************************************************)
OnError(s) ==
  /\ readyState[s] \in {"CONNECTING", "OPEN", "CLOSING"}
  /\ LET closed == [readyState EXCEPT ![s] = "CLOSED"] IN
       /\ uncaught' = (uncaught \/ ws = 0)
       /\ CloseHandler(s, IF ws = 0 THEN closed ELSE SocketClose(closed, ws))
  /\ UNCHANGED <<ws, listeners, shouldReconnect, everOpen, pingPeriod, arrived,
                 forwarded, pinged>>
  /\ UNCHANGED <<feedVars, authVars, dashVars>>

(***************************************************************************)
(* Variant of disconnect() that also resets the backoff delay.             *)
(***************************************************************************)
DisconnectResetsDelay ==
  /\ shouldReconnect' = FALSE
  /\ reconnectDelay' = FloorDelay
  /\ pingInterval' = 0
  /\ intervals' = StopPingIntervals
  /\ readyState' = IF ws # 0 THEN SocketClose(readyState, ws) ELSE readyState
  /\ ws' = 0
  /\ UNCHANGED <<listeners, timeouts, everOpen, pingPeriod,
                 scheduled, arrived, forwarded, pinged, uncaught>>
  /\ UNCHANGED <<feedVars, authVars, dashVars>>

(***************************************************************************)
(* disconnect()                                                            *)
(***************************************************************************)
Disconnect ==
  /\ shouldReconnect' = FALSE
  /\ pingInterval' = 0
  /\ intervals' = StopPingIntervals
  /\ readyState' = IF ws # 0 THEN SocketClose(readyState, ws) ELSE readyState
  /\ ws' = 0
  /\ UNCHANGED <<listeners, reconnectDelay, timeouts, everOpen, pingPeriod,
                 scheduled, arrived, forwarded, pinged, uncaught>>
  /\ UNCHANGED <<feedVars, authVars, dashVars>>

(***************************************************************************)
(* Variant of the keepalive tick that sends without looking at readyState. *)
(***************************************************************************)
PingTickUnguarded(i) ==
  /\ i \in intervals
  /\ pinged' = IF ws # 0 THEN readyState[ws] ELSE "SKIPPED"
  /\ UNCHANGED <<ws, listeners, reconnectDelay, shouldReconnect, pingInterval,
                 readyState, intervals, timeouts, everOpen, pingPeriod, scheduled,
                 arrived, forwarded, uncaught>>
  /\ UNCHANGED <<feedVars, authVars, dashVars>>

(***************************************************************************)
(* one tick of the running keepalive interval i (every 25000 ms):          *)
(* if (this.ws?.readyState === WebSocket.OPEN) this.ws.send("ping")        *)
(* pinged records what the tick did: the readyState of the socket the      *)
(* ping was sent on, or SKIPPED.                                           *)
(***************************************************************************)
PingTick(i) ==
  /\ i \in intervals
  /\ pinged' = IF ws # 0 /\ readyState[ws] = "OPEN" THEN readyState[ws] ELSE "SKIPPED"
  /\ UNCHANGED <<ws, listeners, reconnectDelay, shouldReconnect, pingInterval,
                 readyState, intervals, timeouts, everOpen, pingPeriod, scheduled,
                 arrived, forwarded, uncaught>>
  /\ UNCHANGED <<feedVars, authVars, dashVars>>

NextAgent ==
  \/ \E h \in Handlers, throws \in BOOLEAN : Connect(h, throws)
  \/ \E throws \in BOOLEAN : TimerFire(throws)
  \/ \E s \in SocketIds : OnOpen(s)
  \/ \E s \in SocketIds, m \in Inbound : OnMessage(s, m)
  \/ \E s \in SocketIds : OnClose(s)
  \/ \E s \in SocketIds : OnError(s)
  \/ Disconnect
  \/ \E i \in IntervalIds : PingTick(i)

(***************************************************************************)
(* Part II.  Event Log Store, Activity Broadcaster, Subscriber Session     *)
(* Manager.  An event is identified by the sequence number the store       *)
(* assigns on append, so the log is <<1, 2, ..., n>> tagged with the       *)
(* producer of each record.  The live set is guarded by one lock and no    *)
(* critical section suspends, so every critical section is one action;     *)
(* the store's I/O and the socket writes are actions of their own.         *)
(***************************************************************************)
InitFeed ==
  /\ log = <<>>
  /\ sessState = [s \in Sessions |-> "none"]
  /\ live = {}
  /\ readAt = [s \in Sessions |-> -1]
  /\ replay = [s \in Sessions |-> <<>>]
  /\ outbox = [s \in Sessions |-> <<>>]
  /\ received = [s \in Sessions |-> <<>>]
  /\ flagged = [s \in Sessions |-> FALSE]
  /\ silent = [s \in Sessions |-> FALSE]
  /\ pubPc = [p \in Producers |-> "idle"]
  /\ pubEv = [p \in Producers |-> 0]
  /\ startLive = <<>>
  /\ redone = [s \in Sessions |-> "no"]

(***************************************************************************)
(* Variant of recent(limit) that returns the oldest records.               *)
(***************************************************************************)
RecentOldest(lg, limit) == [i \in 1..Min(limit, Len(lg)) |-> lg[i].seq]

(***************************************************************************)
(* Event Log Store: recent(limit), the last limit sequence numbers of the  *)
(* log in ascending order; the empty sequence for an empty log.            *)
(***************************************************************************)
Recent(lg, limit) ==
  [i \in 1..Min(limit, Len(lg)) |-> lg[Len(lg) - Min(limit, Len(lg)) + i].seq]

(***************************************************************************)
(* A producer is free to call publish when no call of its own is running.  *)
(***************************************************************************)
CanPublish(p) == pubPc[p] \in {"idle", "failed"}

(***************************************************************************)
(* Variant of the append that goes on before the record is durable.        *)
(***************************************************************************)
AppendOkNotDurable(p, cap) ==
  /\ CanPublish(p)
  /\ Len(log) < cap
  /\ pubEv' = [pubEv EXCEPT ![p] = Len(log) + 1]
  /\ pubPc' = [pubPc EXCEPT ![p] = "appended"]
  /\ UNCHANGED <<redone, log, startLive, sessState, live, readAt, replay, outbox,
                 received, flagged, silent>>
  /\ UNCHANGED <<agentVars, authVars, dashVars>>

(***************************************************************************)
(* publish, steps 1-2 with a successful append: the store assigns the next *)
(* sequence number and the record is durable.  The call then waits for the *)
(* lock of the live set.                                                   *)
(***************************************************************************)
AppendOk(p, cap) ==
  /\ CanPublish(p)
  /\ Len(log) < cap
  /\ log' = Append(log, [seq |-> Len(log) + 1, by |-> p])
  /\ startLive' = Append(startLive, live)
  /\ pubEv' = [pubEv EXCEPT ![p] = Len(log) + 1]
  /\ pubPc' = [pubPc EXCEPT ![p] = "appended"]
  /\ UNCHANGED <<redone, sessState, live, readAt, replay, outbox, received, flagged,
                 silent>>
  /\ UNCHANGED <<agentVars, authVars, dashVars>>

(***************************************************************************)
(* Variant of the failing append that fans the unstored record out anyway. *)
(***************************************************************************)
AppendFailFansOut(p) ==
  /\ CanPublish(p)
  /\ pubPc' = [pubPc EXCEPT ![p] = "failed"]
  /\ outbox' = [s \in Sessions |->
                 IF s \in live THEN Append(outbox[s], <<"live", Len(log) + 1>>) ELSE outbox[s]]
  /\ UNCHANGED <<redone, log, sessState, live, readAt, replay, received, flagged,
                 silent, pubEv, startLive>>
  /\ UNCHANGED <<agentVars, authVars, dashVars>>

(***************************************************************************)
(* publish, step 2 with a failing append (PersistenceError): the call      *)
(* fails with BroadcastError and attempts no delivery.                     *)
(***************************************************************************)
AppendFail(p) ==
  /\ CanPublish(p)
  /\ pubPc' = [pubPc EXCEPT ![p] = "failed"]
  /\ UNCHANGED <<redone, log, sessState, live, readAt, replay, outbox, received,
                 flagged, silent, pubEv, startLive>>
  /\ UNCHANGED <<agentVars, authVars, dashVars>>

(***************************************************************************)
(* Variants of the fan-out: one that serves only the first live session,   *)
(* one that puts the record at the front of each queue.                    *)
(***************************************************************************)
FanOutFirstOnly(p) ==
  /\ pubPc[p] = "appended"
  /\ outbox' = [s \in Sessions |->
                 IF s \in live /\ \A u \in live : s <= u
                   THEN Append(outbox[s], <<"live", pubEv[p]>>) ELSE outbox[s]]
  /\ pubPc' = [pubPc EXCEPT ![p] = "idle"]
  /\ pubEv' = [pubEv EXCEPT ![p] = 0]
  /\ UNCHANGED <<redone, log, sessState, live, readAt, replay, received, flagged,
                 silent, startLive>>
  /\ UNCHANGED <<agentVars, authVars, dashVars>>

FanOutAtFront(p) ==
  /\ pubPc[p] = "appended"
  /\ outbox' = [s \in Sessions |->
                 IF s \in live THEN << <<"live", pubEv[p]>> >> \o outbox[s] ELSE outbox[s]]
  /\ pubPc' = [pubPc EXCEPT ![p] = "idle"]
  /\ pubEv' = [pubEv EXCEPT ![p] = 0]
  /\ UNCHANGED <<redone, log, sessState, live, readAt, replay, received, flagged,
                 silent, startLive>>
  /\ UNCHANGED <<agentVars, authVars, dashVars>>

(***************************************************************************)
(* publish, step 3: under the lock the live set is enumerated and the      *)
(* record is put on the queue of every session in it; the call returns.    *)
(* The socket writes happen later, outside the lock (Deliver).             *)
(***************************************************************************)
FanOut(p) ==
  /\ pubPc[p] = "appended"
  /\ outbox' = [s \in Sessions |->
                 IF s \in live THEN Append(outbox[s], <<"live", pubEv[p]>>) ELSE outbox[s]]
  /\ pubPc' = [pubPc EXCEPT ![p] = "idle"]
  /\ pubEv' = [pubEv EXCEPT ![p] = 0]
  /\ UNCHANGED <<redone, log, sessState, live, readAt, replay, received, flagged,
                 silent, startLive>>
  /\ UNCHANGED <<agentVars, authVars, dashVars>>

(***************************************************************************)
(* The socket write of the head of a session's queue succeeds.             *)
(***************************************************************************)
Deliver(s) ==
  /\ outbox[s] # <<>>
  /\ received' = [received EXCEPT ![s] = Append(@, Head(outbox[s]))]
  /\ outbox' = [outbox EXCEPT ![s] = Tail(@)]
  /\ UNCHANGED <<redone, log, sessState, live, readAt, replay, flagged, silent, pubPc,
                 pubEv, startLive>>
  /\ UNCHANGED <<agentVars, authVars, dashVars>>

(***************************************************************************)
(* Variant of the failed write that aborts the whole broadcast.            *)
(***************************************************************************)
DeliverFailAbortsAll(s) ==
  /\ outbox[s] # <<>>
  /\ flagged' = [flagged EXCEPT ![s] = TRUE]
  /\ outbox' = [u \in Sessions |-> <<>>]
  /\ UNCHANGED <<redone, log, sessState, live, readAt, replay, received, silent, pubPc,
                 pubEv, startLive>>
  /\ UNCHANGED <<agentVars, authVars, dashVars>>

(***************************************************************************)
(* The socket write fails (DeliveryError): logged, the record is dropped   *)
(* for this session only and the session is handed to the Session Manager  *)
(* for a liveness re-check.                                                *)
(***************************************************************************)
DeliverFail(s) ==
  /\ outbox[s] # <<>>
  /\ flagged' = [flagged EXCEPT ![s] = TRUE]
  /\ outbox' = [outbox EXCEPT ![s] = Tail(@)]
  /\ UNCHANGED <<redone, log, sessState, live, readAt, replay, received, silent, pubPc,
                 pubEv, startLive>>
  /\ UNCHANGED <<agentVars, authVars, dashVars>>

(***************************************************************************)
(* Variant of onConnect that takes a closed session into use again.        *)
(***************************************************************************)
OnConnectReusesClosed(s, accept) ==
  /\ sessState[s] \in {"none", "closed"}
  /\ \A t \in Sessions : t < s => sessState[t] # "none"
  /\ sessState' = [sessState EXCEPT ![s] = IF accept THEN "connecting" ELSE sessState[s]]
  /\ UNCHANGED <<redone, log, live, readAt, replay, outbox, received,
                 flagged, silent, pubPc, pubEv, startLive>>
  /\ UNCHANGED <<agentVars, authVars, dashVars>>

(***************************************************************************)
(* onConnect(transport): the credential check is an opaque gate; on accept *)
(* a session is created in state connecting, on reject none is created.    *)
(***************************************************************************)
OnConnect(s, accept) ==
  /\ sessState[s] = "none"
  /\ \A t \in Sessions : t < s => sessState[t] # "none"
  /\ sessState' = [sessState EXCEPT ![s] = IF accept THEN "connecting" ELSE "none"]
  /\ UNCHANGED <<redone, log, live, readAt, replay, outbox, received,
                 flagged, silent, pubPc, pubEv, startLive>>
  /\ UNCHANGED <<agentVars, authVars, dashVars>>

(***************************************************************************)
(* onConnect, continued: recent(20) is requested from the Event Log Store. *)
(***************************************************************************)
ReadRecent(s) ==
  /\ sessState[s] = "connecting"
  /\ readAt[s] = -1
  /\ readAt' = [readAt EXCEPT ![s] = Len(log)]
  /\ replay' = [replay EXCEPT ![s] = Recent(log, ReplayLimit)]
  /\ UNCHANGED <<redone, log, sessState, live, outbox, received, flagged,
                 silent, pubPc, pubEv, startLive>>
  /\ UNCHANGED <<agentVars, authVars, dashVars>>

(***************************************************************************)
(* onConnect, continued: the replay batch is pushed in ascending order     *)
(* (one queue entry: the batch is written to the socket as a whole), then  *)
(* the session becomes active and is registered in the live set.           *)
(***************************************************************************)
Register(s) ==
  /\ sessState[s] = "connecting"
  /\ readAt[s] # -1
  /\ outbox' = [outbox EXCEPT ![s] = << <<"replay", replay[s]>> >>]
  /\ sessState' = [sessState EXCEPT ![s] = "active"]
  /\ live' = live \cup {s}
  /\ UNCHANGED <<redone, log, readAt, replay, received, flagged,
                 silent, pubPc, pubEv, startLive>>
  /\ UNCHANGED <<agentVars, authVars, dashVars>>

(***************************************************************************)
(* A session becomes closed: it leaves the live set in the same step, the  *)
(* deliveries still queued for it are cancelled and the session object is  *)
(* discarded (its queue, replay batch and re-check flag are dropped).       *)
(***************************************************************************)
CloseSession(s) ==
  /\ sessState' = [sessState EXCEPT ![s] = "closed"]
  /\ live' = live \ {s}
  /\ outbox' = [outbox EXCEPT ![s] = <<>>]
  /\ readAt' = [readAt EXCEPT ![s] = -1]
  /\ replay' = [replay EXCEPT ![s] = <<>>]
  /\ flagged' = [flagged EXCEPT ![s] = FALSE]
  /\ UNCHANGED <<redone, log, received, silent, pubPc, pubEv, startLive>>

(***************************************************************************)
(* Variant of onDisconnect that rejects a session that is closed already.  *)
(***************************************************************************)
OnDisconnectRejectsClosed(s) ==
  /\ sessState[s] \in {"connecting", "active", "closed"}
  /\ IF sessState[s] = "closed"
       THEN /\ redone' = [redone EXCEPT ![s] = "error"]
            /\ UNCHANGED <<log, sessState, live, readAt, replay, outbox, received,
                           flagged, silent, pubPc, pubEv, startLive>>
       ELSE CloseSession(s)
  /\ UNCHANGED <<agentVars, authVars, dashVars>>

(***************************************************************************)
(* onDisconnect(session): to closed, out of the live set; a no-op on a     *)
(* session that is closed already.                                         *)
(***************************************************************************)
OnDisconnect(s) ==
  /\ sessState[s] \in {"connecting", "active", "closed"}
  /\ IF sessState[s] = "closed"
       THEN /\ redone' = [redone EXCEPT ![s] = "noop"]
            /\ UNCHANGED <<log, sessState, live, readAt, replay, outbox, received,
                           flagged, silent, pubPc, pubEv, startLive>>
       ELSE CloseSession(s)
  /\ UNCHANGED <<agentVars, authVars, dashVars>>

(***************************************************************************)
(* A transport error closes the session directly.                          *)
(***************************************************************************)
TransportError(s) ==
  /\ sessState[s] \in {"connecting", "active"}
  /\ CloseSession(s)
  /\ UNCHANGED <<agentVars, authVars, dashVars>>

(***************************************************************************)
(* Liveness.  The timeout is abstracted to its expiry: the session has     *)
(* sent no traffic (no ping, nothing else) for longer than the configured  *)
(* timeout; the liveness check then closes it.  Traffic within the timeout *)
(* changes nothing the model records.                                      *)
(***************************************************************************)
Silence(s) ==
  /\ sessState[s] = "active"
  /\ ~silent[s]
  /\ silent' = [silent EXCEPT ![s] = TRUE]
  /\ UNCHANGED <<redone, log, sessState, live, readAt, replay, outbox,
                 received, flagged, pubPc, pubEv, startLive>>
  /\ UNCHANGED <<agentVars, authVars, dashVars>>

(***************************************************************************)
(* Variant of the liveness expiry that forgets the live set.               *)
(***************************************************************************)
ExpireKeepsLive(s) ==
  /\ sessState[s] = "active"
  /\ silent[s]
  /\ sessState' = [sessState EXCEPT ![s] = "closed"]
  /\ outbox' = [outbox EXCEPT ![s] = <<>>]
  /\ UNCHANGED <<redone, log, live, readAt, replay, received, flagged, silent, pubPc,
                 pubEv, startLive>>
  /\ UNCHANGED <<agentVars, authVars, dashVars>>

Expire(s) ==
  /\ sessState[s] = "active"
  /\ silent[s]
  /\ CloseSession(s)
  /\ UNCHANGED <<agentVars, authVars, dashVars>>

(***************************************************************************)
(* The server with producers P, at most cap records and every session.     *)
(***************************************************************************)
FeedStep(P, cap) ==
  \/ \E p \in P : AppendOk(p, cap)
  \/ \E p \in P : AppendFail(p)
  \/ \E p \in P : FanOut(p)
  \/ \E s \in Sessions : Deliver(s)
  \/ \E s \in Sessions : DeliverFail(s)
  \/ \E s \in Sessions, accept \in BOOLEAN : OnConnect(s, accept)
  \/ \E s \in Sessions : ReadRecent(s)
  \/ \E s \in Sessions : Register(s)
  \/ \E s \in Sessions : OnDisconnect(s)
  \/ \E s \in Sessions : TransportError(s)
  \/ \E s \in Sessions : Silence(s)
  \/ \E s \in Sessions : Expire(s)

NextFeed == FeedStep(Producers, MaxEvents)

(***************************************************************************)
(* The log and the admission reads alone, for the replay window: one       *)
(* producer appends up to MaxLogged records while sessions connect and     *)
(* read recent(20).                                                        *)
(***************************************************************************)
NextReplay ==
  \/ AppendOk(1, MaxLogged)
  \/ AppendFail(1)
  \/ FanOut(1)
  \/ \E s \in Sessions, accept \in BOOLEAN : OnConnect(s, accept)
  \/ \E s \in Sessions : ReadRecent(s)
  \/ \E s \in Sessions : OnDisconnect(s)

(***************************************************************************)
(* Part III.  AdminAuthContext.  A token is a positive number, 0 stands    *)
(* for null or for an absent localStorage item or header.  Before the page *)
(* has loaded nothing exists.                                              *)
(***************************************************************************)
Statuses == {200, 401, 500}

NoHeaders == [Authorization |-> 0, xAdminSecret |-> 0]

NoResponse == [status |-> 0, rejected |-> FALSE, autoLogout |-> FALSE]

InitAuth ==
  /\ variant = "unloaded"
  /\ admin_token = 0
  /\ adminSecret = 0
  /\ adminToken = 0
  /\ isLoggingOut = FALSE
  /\ captured = {}
  /\ dirty = FALSE
  /\ inflight = 0
  /\ lastHeaders = NoHeaders
  /\ lastResponse = NoResponse
  /\ redirecting = FALSE

(***************************************************************************)
(* The module is evaluated and AdminAuthProvider renders for the first     *)
(* time: useState reads admin_token from localStorage, and the render      *)
(* registers a response interceptor that closes over that adminToken.      *)
(***************************************************************************)
Mount ==
  /\ adminToken' = admin_token'
  /\ captured' = {admin_token'}
  /\ isLoggingOut' = FALSE
  /\ dirty' = FALSE
  /\ inflight' = 0
  /\ lastHeaders' = NoHeaders
  /\ lastResponse' = NoResponse
  /\ redirecting' = FALSE

(***************************************************************************)
(* First load of the page, with whatever an earlier visit left in          *)
(* localStorage.                                                           *)
(***************************************************************************)
PageLoad(v, tok, sec) ==
  /\ variant = "unloaded"
  /\ variant' = v
  /\ admin_token' = tok
  /\ adminSecret' = sec
  /\ Mount
  /\ UNCHANGED <<agentVars, feedVars, dashVars>>

(***************************************************************************)
(* adminLogin(secret) once the POST /api/admin/login has answered with     *)
(* access_token t.  A failed login throws before it touches any state.     *)
(***************************************************************************)
AdminLogin(t) ==
  /\ variant # "unloaded"
  /\ admin_token' = t
  /\ adminToken' = t
  /\ dirty' = (dirty \/ adminToken # t)
  /\ UNCHANGED <<variant, adminSecret, isLoggingOut, captured, inflight,
                 lastHeaders, lastResponse, redirecting>>
  /\ UNCHANGED <<agentVars, feedVars, dashVars>>

(***************************************************************************)
(* The body of adminLogout(); part_000 also sets the 300 ms timer that     *)
(* loads /admin-login.                                                     *)
(***************************************************************************)
DoAdminLogout ==
  /\ isLoggingOut' = TRUE
  /\ admin_token' = 0
  /\ adminToken' = 0
  /\ dirty' = (dirty \/ adminToken # 0 \/ ~isLoggingOut)
  /\ redirecting' = (redirecting \/ variant = "part_000")

AdminLogout ==
  /\ variant # "unloaded"
  /\ DoAdminLogout
  /\ UNCHANGED <<variant, adminSecret, captured, inflight, lastHeaders, lastResponse>>
  /\ UNCHANGED <<agentVars, feedVars, dashVars>>

(***************************************************************************)
(* AdminAuthProvider renders again after a state update: the body calls    *)
(* adminAxios.interceptors.response.use once more, with the adminToken of  *)
(* this render; the interceptors of earlier renders stay registered.       *)
(***************************************************************************)
Render ==
  /\ variant # "unloaded"
  /\ dirty
  /\ captured' = captured \cup {adminToken}
  /\ dirty' = FALSE
  /\ UNCHANGED <<variant, admin_token, adminSecret, adminToken, isLoggingOut,
                 inflight, lastHeaders, lastResponse, redirecting>>
  /\ UNCHANGED <<agentVars, feedVars, dashVars>>

(***************************************************************************)
(* The request interceptor.  frontend/src/context/AdminAuthContext.jsx     *)
(* attaches x-admin-secret from the localStorage item adminSecret;         *)
(* unnamed/part_000 attaches Authorization: Bearer <admin_token>.  Either  *)
(* attaches nothing when the item is absent.                               *)
(***************************************************************************)
RequestHeaders ==
  IF variant = "part_000"
    THEN [Authorization |-> admin_token, xAdminSecret |-> 0]
    ELSE [Authorization |-> 0, xAdminSecret |-> adminSecret]

(***************************************************************************)
(* Some caller sends a request through adminAxios.                         *)
(***************************************************************************)
Request ==
  /\ variant # "unloaded"
  /\ inflight < MaxRequests
  /\ inflight' = inflight + 1
  /\ lastHeaders' = RequestHeaders
  /\ UNCHANGED <<variant, admin_token, adminSecret, adminToken, isLoggingOut,
                 captured, dirty, lastResponse, redirecting>>
  /\ UNCHANGED <<agentVars, feedVars, dashVars>>

(***************************************************************************)
(* A response arrives.  On an error every registered response interceptor  *)
(* runs in turn (each one rejects again): one whose closure holds a        *)
(* non-null adminToken calls adminLogout() on a 401.  The caller's promise *)
(* is rejected for every error status.                                     *)
(***************************************************************************)
Respond(status) ==
  /\ variant # "unloaded"
  /\ inflight > 0
  /\ inflight' = inflight - 1
  /\ LET logout == status = 401 /\ \E c \in captured : c # 0 IN
       /\ lastResponse' = [status |-> status, rejected |-> status # 200,
                           autoLogout |-> logout]
       /\ IF logout
            THEN DoAdminLogout
            ELSE UNCHANGED <<admin_token, adminToken, isLoggingOut, dirty, redirecting>>
  /\ UNCHANGED <<variant, adminSecret, captured, lastHeaders>>
  /\ UNCHANGED <<agentVars, feedVars, dashVars>>

(***************************************************************************)
(* part_000: the timer of adminLogout fires, window.location.href loads    *)
(* /admin-login: the page starts afresh with what localStorage holds.      *)
(***************************************************************************)
Redirect ==
  /\ redirecting
  /\ UNCHANGED <<variant, admin_token, adminSecret>>
  /\ Mount
  /\ UNCHANGED <<agentVars, feedVars, dashVars>>

(***************************************************************************)
(* pages/AdminDashboard.jsx, logout(): the page removes admin_token from   *)
(* localStorage itself and navigates to /admin-login with the router (no   *)
(* page load); the provider's adminToken is not touched.                   *)
(***************************************************************************)
DashboardLogout ==
  /\ variant # "unloaded"
  /\ admin_token' = 0
  /\ UNCHANGED <<variant, adminSecret, adminToken, isLoggingOut, captured, dirty,
                 inflight, lastHeaders, lastResponse, redirecting>>
  /\ UNCHANGED <<agentVars, feedVars, dashVars>>

(***************************************************************************)
(* pages/AdminDashboard.jsx, fetchData(token): the page's own fetch of     *)
(* /api/admin/dashboard, started with a stored token, fails (not ok, or a  *)
(* network error): the catch removes admin_token and navigates.            *)
(***************************************************************************)
DashboardFetchFails ==
  /\ variant # "unloaded"
  /\ admin_token' = 0
  /\ UNCHANGED <<variant, adminSecret, adminToken, isLoggingOut, captured, dirty,
                 inflight, lastHeaders, lastResponse, redirecting>>
  /\ UNCHANGED <<agentVars, feedVars, dashVars>>

NextAuth ==
  \/ \E v \in Variants, tok \in {0} \cup Tokens, sec \in {0, 1} : PageLoad(v, tok, sec)
  \/ \E t \in Tokens : AdminLogin(t)
  \/ AdminLogout
  \/ Render
  \/ Request
  \/ \E status \in Statuses : Respond(status)
  \/ Redirect
  \/ DashboardLogout
  \/ DashboardFetchFails

(***************************************************************************)
(* Part IV.  The useDashboard hook.  Its five fetch operations have the    *)
(* same shape: setLoading(true), setError(null), await the adminApi call,  *)
(* then setError(message) when it failed, and setLoading(false) in the     *)
(* finally block.  loading and error are one state each, shared by all.    *)
(***************************************************************************)
InitDash ==
  /\ pending = [f \in Fetches |-> 0]
  /\ loading = FALSE
  /\ error = "null"
  /\ lastCompleted = "none"

(***************************************************************************)
(* A fetch operation is called: up to its await.                           *)
(***************************************************************************)
StartFetch(f) ==
  /\ pending[f] < MaxCalls
  /\ pending' = [pending EXCEPT ![f] = @ + 1]
  /\ loading' = TRUE
  /\ error' = "null"
  /\ UNCHANGED lastCompleted
  /\ UNCHANGED <<agentVars, feedVars, authVars>>

(***************************************************************************)
(* The adminApi call of a fetch resolves: the data is stored, finally.     *)
(***************************************************************************)
FetchSucceeds(f) ==
  /\ pending[f] > 0
  /\ pending' = [pending EXCEPT ![f] = @ - 1]
  /\ loading' = FALSE
  /\ lastCompleted' = "ok"
  /\ UNCHANGED error
  /\ UNCHANGED <<agentVars, feedVars, authVars>>

(***************************************************************************)
(* The adminApi call of a fetch rejects: catch, then finally.              *)
(***************************************************************************)
FetchFails(f) ==
  /\ pending[f] > 0
  /\ pending' = [pending EXCEPT ![f] = @ - 1]
  /\ error' = f
  /\ loading' = FALSE
  /\ lastCompleted' = "failed"
  /\ UNCHANGED <<agentVars, feedVars, authVars>>

NextDash ==
  \/ \E f \in Fetches : StartFetch(f)
  \/ \E f \in Fetches : FetchSucceeds(f)
  \/ \E f \in Fetches : FetchFails(f)

vars == <<agentVars, feedVars, authVars, dashVars>>

Init == InitAgent /\ InitFeed /\ InitAuth /\ InitDash

SpecAgent == Init /\ [][NextAgent]_vars

SpecFeed == Init /\ [][NextFeed]_vars

SpecReplay == Init /\ [][NextReplay]_vars

(***************************************************************************)
(* The liveness check runs whenever a session is overdue: weak fairness of *)
(* Expire.  One producer and one record keep the behaviour graph small.    *)
(***************************************************************************)
NextLiveness == FeedStep({1}, 1)

SpecLiveness ==
  Init /\ [][NextLiveness]_vars /\ \A s \in Sessions : WF_vars(Expire(s))

SpecAuth == Init /\ [][NextAuth]_vars

SpecDash == Init /\ [][NextDash]_vars

(***************************************************************************)
(* Properties.                                                             *)
(***************************************************************************)

\* A step creates a new transport: some slot enters CONNECTING.
Created == \E s \in SocketIds : readyState[s] # "CONNECTING" /\ readyState'[s] = "CONNECTING"

\* C1: after disconnect() (reconnection intent cleared) no new transport is
\* created until connect() is called again, i.e. a step that creates a
\* transport while the intent is clear is a connect(), which sets the intent.
C1_NoTransportAfterDisconnect ==
  [][(~shouldReconnect /\ Created) => shouldReconnect']_vars

\* C2: the delays of the reconnects scheduled since the last open lie between
\* floor and ceiling and never decrease, and after a successful open the
\* first of them is exactly the floor.
C2_BackoffGrowsAndResets ==
  /\ \A i \in 1..Len(scheduled) : FloorDelay <= scheduled[i] /\ scheduled[i] <= maxDelay
  /\ \A i \in 1..(Len(scheduled) - 1) : scheduled[i] <= scheduled[i + 1]
  /\ (everOpen /\ scheduled # <<>>) => scheduled[1] = FloorDelay

\* An open happened, then MaxFailures closes in a row: the first reconnect at
\* the floor, the last at the ceiling.
C2_Witness ==
  /\ everOpen
  /\ Len(scheduled) = MaxFailures
  /\ scheduled[1] = FloorDelay
  /\ scheduled[2] > FloorDelay
  /\ scheduled[MaxFailures] = maxDelay

\* Whether a queue entry carries event e, and how often a queue does.
Carries(entry, e) ==
  IF entry[1] = "live" THEN entry[2] = e
  ELSE \E i \in 1..Len(entry[2]) : entry[2][i] = e

Times(q, e) == Cardinality({i \in 1..Len(q) : Carries(q[i], e)})

\* The publish call of event e has returned.
FanOutDone(e) == \A p \in Producers : ~(pubPc[p] = "appended" /\ pubEv[p] = e)

LivePushes(s) == SelectSeq(received[s] \o outbox[s], LAMBDA x : x[1] = "live")

C5_ReplayWindow ==
  /\ \A i \in 1..Len(log) : log[i].seq = i
  /\ \A s \in Sessions : readAt[s] # -1 =>
       /\ Len(replay[s]) = Min(ReplayLimit, readAt[s])
       /\ \A i \in 1..Len(replay[s]) : replay[s][i] = readAt[s] - Len(replay[s]) + i

\* 25 records published; the replay is exactly 6..25.
C5_Witness ==
  \E s \in Sessions :
    /\ readAt[s] = MaxLogged
    /\ Len(replay[s]) = ReplayLimit
    /\ replay[s][1] = MaxLogged - ReplayLimit + 1
    /\ replay[s][ReplayLimit] = MaxLogged

\* C6: the step in which a publish call fails with BroadcastError changes
\* neither the log nor the live set, and puts nothing on any queue and
\* nothing into any session.
C6_FailedPublishDeliversNothing ==
  [][\A p \in Producers :
       (pubPc[p] # "failed" /\ pubPc'[p] = "failed")
         => (log' = log /\ live' = live /\ outbox' = outbox /\ received' = received)]_vars

\* A publish call failed while a session was active and the log non-empty.
C6_Witness ==
  /\ \E p \in Producers : pubPc[p] = "failed"
  /\ live # {}
  /\ Len(log) >= 1

C8_DeliveredIsLogged ==
  \A s \in Sessions : \A i \in 1..Len(received[s] \o outbox[s]) :
    LET x == (received[s] \o outbox[s])[i] IN
      IF x[1] = "live" THEN x[2] \in 1..Len(log)
      ELSE \A k \in 1..Len(x[2]) : x[2][k] \in 1..Len(log)

\* A session has received a non-empty replay batch and a live push.
C8_Witness ==
  \E s \in Sessions :
    /\ Len(received[s]) = 2
    /\ received[s][1][1] = "replay" /\ received[s][1][2] # <<>>
    /\ received[s][2][1] = "live"

\* C9: a step that drops a queued delivery of session s (its write failed, or
\* s was closed) leaves every other session's queue, receipts and state, the
\* log and every publish call as they were.
C9_FailureIsContained ==
  [][\A s \in Sessions :
       (Len(outbox'[s]) < Len(outbox[s]) /\ received'[s] = received[s])
         => /\ \A u \in Sessions \ {s} :
                 outbox'[u] = outbox[u] /\ received'[u] = received[u]
                   /\ sessState'[u] = sessState[u]
            /\ pubPc' = pubPc
            /\ log' = log]_vars

\* A write to one session failed; the other session, active for the same
\* event, received it, and no publish call failed.
C9_Witness ==
  \E s, u \in Sessions :
    /\ s # u
    /\ flagged[s] /\ sessState[s] = "active"
    /\ Len(log) >= 1 /\ startLive[1] = Sessions
    /\ Times(received[s], 1) = 0 /\ Times(received[u], 1) = 1
    /\ \A p \in Producers : pubPc[p] = "idle"

\* C10: a session silent for longer than the liveness timeout is eventually
\* closed and out of the live set, and a closed session is in no live set and
\* is never queued for.
C10_SilentSessionIsRemoved ==
  /\ \A s \in Sessions :
       (sessState[s] = "active" /\ silent[s]) ~> (sessState[s] = "closed" /\ s \notin live)
  /\ [](\A s \in Sessions : sessState[s] = "closed" => (s \notin live /\ outbox[s] = <<>>))

\* A silent session was closed; a record published afterwards reached the
\* other session only.
C10_Witness ==
  \E s, u \in Sessions :
    /\ sessState[s] = "closed" /\ silent[s]
    /\ Len(log) = 1 /\ startLive[1] = {u}
    /\ Times(received[u], 1) = 1 /\ Times(received[s], 1) = 0

\* C11: a second onDisconnect on a session that is closed already raises no
\* error and changes neither the live set nor any session's state, queue or
\* receipts.
C11_DisconnectIdempotent ==
  [][\A s \in Sessions :
       (sessState[s] = "closed" /\ redone'[s] # redone[s])
         => /\ redone'[s] = "noop"
            /\ live' = live
            /\ sessState' = sessState
            /\ outbox' = outbox
            /\ received' = received]_vars

\* onDisconnect was called again on a closed session while the other
\* session was active and live, with a delivery queued for it.
C11_Witness ==
  \E s, u \in Sessions :
    /\ sessState[s] = "closed" /\ redone[s] = "noop"
    /\ sessState[u] = "active" /\ u \in live /\ outbox[u] # <<>>

\* The indices of the inbound messages handed to the handler, in the order
\* of the invocations.
ForwardedIndex == [k \in 1..Len(forwarded) |-> forwarded[k][2]]

C13_MalformedIsDiscarded ==
  [][(Len(arrived') = Len(arrived) + 1 /\ arrived'[Len(arrived')] = "malformed")
       => /\ forwarded' = forwarded
          /\ uncaught' = uncaught
          /\ readyState' = readyState
          /\ ws' = ws
          /\ shouldReconnect' = shouldReconnect
          /\ reconnectDelay' = reconnectDelay
          /\ pingInterval' = pingInterval
          /\ intervals' = intervals
          /\ timeouts' = timeouts]_vars

\* A malformed message arrived, nothing was thrown, and the event that came
\* after it on the still open transport reached the handler.
C13_Witness ==
  /\ arrived = <<"malformed", "event">>
  /\ forwarded = << <<"onEvent", 2>> >>
  /\ ~uncaught
  /\ ws # 0 /\ readyState[ws] = "OPEN" /\ pingInterval \in intervals

\* A step handles the close event of some transport: the socket becomes
\* CLOSED.
CloseHandled == \E s \in SocketIds : readyState[s] # "CLOSED" /\ readyState'[s] = "CLOSED"

\* C14: a handled close event with the reconnection intent set schedules
\* exactly one reconnect, with the delay as it stood before the close, and
\* then grows the delay (or leaves it at the ceiling); with the intent clear
\* it schedules nothing and leaves the delay alone.
C14_CloseSchedulesOneReconnect ==
  [][CloseHandled =>
       IF shouldReconnect
         THEN /\ timeouts' = timeouts + 1
              /\ scheduled' = Append(scheduled, reconnectDelay)
              /\ reconnectDelay' > reconnectDelay \/ reconnectDelay' = maxDelay
              /\ reconnectDelay' * 2 <= reconnectDelay * 3
         ELSE /\ timeouts' = timeouts
              /\ scheduled' = scheduled
              /\ reconnectDelay' = reconnectDelay]_vars

\* Two closes in a row with the intent set: the second reconnect was
\* scheduled after 3000 ms, the delay then grew to 4500 ms.
C14_Witness ==
  /\ shouldReconnect
  /\ scheduled = <<FloorDelay, (FloorDelay * 3) \div 2>>
  /\ reconnectDelay = (FloorDelay * 9) \div 4
  /\ timeouts = 1

\* A step handles the open event of some transport.
Opened == \E s \in SocketIds : readyState[s] = "CONNECTING" /\ readyState'[s] = "OPEN"

\* C15: every open starts a keepalive interval of 25000 ms, whatever the
\* backoff delay is; a tick sends "ping" on the current transport exactly
\* when that transport is OPEN, and no ping is ever sent on a transport
\* that is not open.
C15_KeepalivePingsOpenTransportOnly ==
  /\ [](pinged \in {"NONE", "SKIPPED", "OPEN"})
  /\ [](pingPeriod = IF everOpen THEN PingPeriodMs ELSE 0)
  /\ [][Opened => (pingInterval' \in intervals' \ intervals /\ pingPeriod' = PingPeriodMs)]_vars
  /\ [][pinged' # pinged =>
          pinged' = IF ws # 0 /\ readyState[ws] = "OPEN" THEN "OPEN" ELSE "SKIPPED"]_vars

\* The current transport is open, its 25000 ms keepalive is running and a
\* tick has sent a ping on it.
C15_Witness ==
  /\ pinged = "OPEN"
  /\ ws # 0 /\ readyState[ws] = "OPEN"
  /\ pingInterval \in intervals
  /\ pingPeriod = PingPeriodMs

\* C16: when disconnect() returns (the step that clears the reconnection
\* intent), no keepalive interval created by the agent is still running.
C16_NoKeepaliveAfterDisconnect ==
  [][(shouldReconnect /\ ~shouldReconnect') => intervals' = {}]_vars

\* C17: the step that handles an error event of transport s closes that
\* transport and no other one, and its handlers run without an exception
\* escaping.
C17_ErrorClosesThatTransport ==
  [][\A s \in SocketIds :
       OnError(s) => /\ readyState'[s] = "CLOSED"
                     /\ \A u \in SocketIds \ {s} : readyState'[u] = readyState[u]
                     /\ uncaught' = uncaught]_vars

\* C18: while the reconnection intent is set the agent is never stopped for
\* good: a transport exists that is connecting, open or about to report its
\* close, or a reconnect timer is pending, so that every loss of the
\* connection is followed by another attempt once the timers fire.
C18_IntentKeepsAgentReconnecting ==
  shouldReconnect =>
    \/ timeouts > 0
    \/ \E s \in SocketIds : readyState[s] \in {"CONNECTING", "OPEN", "CLOSING"}

\* A step sends a request through adminAxios; a step answers one with 401.
Sent == inflight' = inflight + 1

Answered401 == inflight' = inflight - 1 /\ lastResponse'.status = 401

\* C19: while an admin token is held (after a successful adminLogin and
\* until adminLogout) every request sent through adminAxios carries
\* Authorization: Bearer <token>, the token being the admin_token stored in
\* localStorage at that moment.
C19_RequestsCarryBearerToken ==
  [][(Sent /\ admin_token # 0 /\ adminToken # 0)
       => lastHeaders'.Authorization = admin_token]_vars

\* C20: a 401 answered while an admin token is held logs the administrator
\* out (admin_token removed, adminToken null) and still rejects the
\* caller's promise; a 401 answered while no admin token is held does not
\* invoke adminLogout.  Taken with the provider's latest state rendered.
C20_AutoLogoutOn401 ==
  [][(Answered401 /\ ~dirty) =>
       /\ lastResponse'.rejected
       /\ IF adminToken # 0
            THEN lastResponse'.autoLogout /\ admin_token' = 0 /\ adminToken' = 0
            ELSE ~lastResponse'.autoLogout]_vars

\* The transitions of a Subscriber Session: its creation in state
\* connecting and the five transitions of the state machine.
SessionTransitions ==
  {<<"none", "connecting">>, <<"connecting", "active">>, <<"active", "closing">>,
   <<"closing", "closed">>, <<"connecting", "closed">>, <<"active", "closed">>}

BackoffDelay(k) == Min((FloorDelay * 3^k) \div 2^k, maxDelay)

\* C22: reconnectDelay always lies within [2000, 30000] ms, and the delay
\* of the k-th consecutive reconnect scheduled since the last open
\* (k = 0, 1, ...) is exactly min(2000 * 1.5^k, 30000) ms.
C22_BackoffSequence ==
  /\ FloorDelay <= reconnectDelay /\ reconnectDelay <= maxDelay
  /\ \A i \in 1..Len(scheduled) : scheduled[i] = BackoffDelay(i - 1)

\* After an open, nine closes in a row were scheduled after 2000, 3000,
\* 4500, 6750, 10125, 15187.5, 22781.25, 30000 and 30000 ms.
C22_Witness ==
  /\ everOpen
  /\ scheduled = <<2000 * 8, 3000 * 8, 4500 * 8, 6750 * 8, 10125 * 8, 121500,
                   182250, 30000 * 8, 30000 * 8>>
  /\ reconnectDelay = 30000 * 8

\* The agent holds a transport that is connecting or open: this.ws refers
\* to one.
Holding == ws # 0 /\ readyState[ws] \in {"CONNECTING", "OPEN"}

\* C23: the agent is in exactly one of idle, connecting, active,
\* backoff_wait and stopped: it never holds an open or connecting transport
\* while a reconnect timer is pending, and once stopped (intent clear) it
\* gets a transport again only by connect().
C23_RefinesFiveStateMachine ==
  /\ [](~(Holding /\ timeouts > 0))
  /\ [][(~shouldReconnect /\ ~Holding /\ Holding') => shouldReconnect']_vars

\* The transports created by the agent that are connecting or open.
LiveTransports == {s \in SocketIds : readyState[s] \in {"CONNECTING", "OPEN"}}

\* C24: at every moment at most one transport created by the agent is
\* connecting or open.
C24_AtMostOneLiveTransport == Cardinality(LiveTransports) <= 1

\* C25: whenever the agent's current transport is open a keepalive interval
\* is running, so that no close event of an older transport has stopped the
\* keepalive of the current one.
C25_OpenTransportHasKeepalive ==
  (ws # 0 /\ readyState[ws] = "OPEN") => intervals # {}

\* C26: between disconnect() and the next connect() (reconnection intent
\* clear) no step invokes the registered handler.
C26_NoHandlerCallAfterDisconnect ==
  [][~shouldReconnect => forwarded' = forwarded]_vars

\* C27: no event handler of the agent lets an exception escape.
C27_NoUncaughtException == ~uncaught

\* C28: reconnectDelay changes only in a step that handles an open (to 2000
\* ms) or a close with the reconnection intent set (to min(1.5 * delay,
\* 30000)); every other step, connect() and disconnect() included, leaves
\* it as it was.  An error event reaches the agent together with the close
\* event of the same transport, and that close is what grows the delay.
C28_DelayChangesOnlyOnOpenAndClose ==
  [][/\ Opened => reconnectDelay' = FloorDelay
     /\ (CloseHandled /\ ~Opened) =>
          reconnectDelay' = IF shouldReconnect THEN Grow(reconnectDelay) ELSE reconnectDelay
     /\ (~Opened /\ ~CloseHandled) => reconnectDelay' = reconnectDelay]_vars

\* After two closes the delay stood at 4500 ms; disconnect() and a new
\* connect() followed, a message and a keepalive tick were handled on an
\* older transport, and the delay is still 4500 ms.
C28_Witness ==
  /\ reconnectDelay = 4500 * 8
  /\ scheduled = <<2000 * 8, 3000 * 8>>
  /\ shouldReconnect /\ ws # 0 /\ readyState[ws] = "CONNECTING"
  /\ timeouts = 0
  /\ \E s \in SocketIds : readyState[s] = "CLOSING"
  /\ arrived # <<>> /\ pinged # "NONE"

\* A fetch operation of the hook is in flight.
InFlight == \E f \in Fetches : pending[f] > 0

\* C29: loading is true exactly when at least one fetch operation of the
\* hook is in flight, and error is non-null only if the fetch that
\* completed last failed.
C29_LoadingTracksFetches ==
  /\ loading <=> InFlight
  /\ error # "null" => lastCompleted = "failed"

\* C30: once the page has loaded, adminToken is non-null exactly when
\* localStorage holds admin_token, and then the two are equal.
C30_TokenMatchesStorage ==
  variant # "unloaded" => adminToken = admin_token

====
